---- MODULE Spec2Model ----
(***************************************************************************)
(* Model of the rectangle packer of resprite (src/potpack2.rs) and of the  *)
(* way src/main.rs pairs the packed boxes with the images.                 *)
(*                                                                         *)
(* f64 values are modelled by integers (the caller, layout_atlas, passes   *)
(* integer-valued sizes: ceil(size) + 2 * ceil(buffer)) plus four special  *)
(* values: NaN, +infinity, -infinity and f64::MAX.  Every arithmetic and   *)
(* comparison operator below follows IEEE-754 on these values.             *)
(***************************************************************************)
EXTENDS Integers, Sequences, FiniteSets, TLC

\* ---------------------------------------------------------------- bounds
MaxItems == 3
MaxDim == 1
DeepLen == 5
DeepDim == 3
MaxAnyItems == 2
MaxAnyDim == 2
MaxNeg == 1

\* ------------------------------------------------------------ f64 values
\* f64::MAX, the height of the initial space; every finite size of the
\* model is far below it, so  f64::MAX - h  rounds back to f64::MAX.
F64MAX == 1000000
PosInf == F64MAX + 1
NegInf == 0 - PosInf
NaN == 0 - (2 * PosInf)

IsInf(a) == a = PosInf \/ a = NegInf

\* a + b
FAdd(a, b) ==
    IF a = NaN \/ b = NaN THEN NaN
    ELSE IF a = PosInf THEN (IF b = NegInf THEN NaN ELSE PosInf)
    ELSE IF a = NegInf THEN (IF b = PosInf THEN NaN ELSE NegInf)
    ELSE IF IsInf(b) THEN b
    ELSE IF a = F64MAX \/ b = F64MAX THEN F64MAX
    ELSE a + b

\* -a
FNeg(a) ==
    IF a = NaN THEN NaN
    ELSE IF a = PosInf THEN NegInf
    ELSE IF a = NegInf THEN PosInf
    ELSE 0 - a

\* a - b
FSub(a, b) == FAdd(a, FNeg(b))

\* a * b   (f64::MAX is never a factor: it only occurs as a space height)
FMul(a, b) ==
    IF a = NaN \/ b = NaN THEN NaN
    ELSE IF IsInf(a) \/ IsInf(b)
         THEN IF a = 0 \/ b = 0 THEN NaN
              ELSE IF (a > 0) = (b > 0) THEN PosInf ELSE NegInf
    ELSE a * b

\* a > b   (false when either side is NaN)
FGt(a, b) == a # NaN /\ b # NaN /\ a > b

\* a == b  (false when either side is NaN)
FEq(a, b) == a # NaN /\ b # NaN /\ a = b

\* f64::max: the other operand when one is NaN
FMax(a, b) ==
    IF a = NaN THEN b
    ELSE IF b = NaN THEN a
    ELSE IF a > b THEN a ELSE b

RECURSIVE CeilSqrtFrom(_, _)
\* least n >= from with n * n * 0.95 >= area, i.e. 19 n^2 >= 20 area
CeilSqrtFrom(from, area) ==
    IF 19 * from * from >= 20 * area THEN from
    ELSE CeilSqrtFrom(from + 1, area)

\* (area / 0.95).sqrt().ceil()
CeilSqrtArea(area) ==
    IF area = NaN \/ area = NegInf THEN NaN
    ELSE IF area = PosInf THEN PosInf
    ELSE IF area < 0 THEN NaN
    ELSE CeilSqrtFrom(0, area)

Max(S) == CHOOSE m \in S : \A k \in S : k <= m
Min(S) == CHOOSE m \in S : \A k \in S : m <= k

\* ------------------------------------------------------------------ state
VARIABLES
    input,        \* the items handed to Layout::new, in the caller's order
    pc,           \* position in Layout::new / Layout::from_boxes
    boxes,        \* Vec<Box>
    spaces,       \* Vec<Space>, the free list
    born,         \* history: for each entry of spaces, the step that created it
    width,        \* running container width
    height,       \* running container height
    total_area,
    max_width,
    start_width,
    fill_ratio,   \* the quotient, kept as numerator and denominator
    i,            \* index in boxes of the next box of the placement loop
    last          \* history: what the last placement step scanned and chose

vars == <<input, pc, boxes, spaces, born, width, height, total_area,
          max_width, start_width, fill_ratio, i, last>>

\* impl Rect for (f64, f64)
Item(w, h) == [w |-> w, h |-> h]

NoStep == [idx |-> 0, fit |-> {}, born |-> <<>>, removed |-> FALSE]
One == [num |-> 1, den |-> 1]

\* -------------------------------------------------------------- Layout::new
\* variant: the items numbered from 1
NewBox_FromOne(idx, item) ==
    [id |-> idx + 1, w |-> item.w, h |-> item.h, x |-> NaN, y |-> NaN]

\* the Box built for the idx-th item (idx counted from 0)
NewBox(idx, item) ==
    [id |-> idx, w |-> item.w, h |-> item.h, x |-> NaN, y |-> NaN]

Layout_new(items) == [k \in 1..Len(items) |-> NewBox(k - 1, items[k])]

\* ------------------------------------------------------ Layout::from_boxes
RECURSIVE SumArea(_)
\* boxes.iter().map(|b| b.h * b.w).sum()
SumArea(bs) ==
    IF bs = <<>> THEN 0
    ELSE FAdd(SumArea(SubSeq(bs, 1, Len(bs) - 1)),
              FMul(bs[Len(bs)].h, bs[Len(bs)].w))

RECURSIVE FoldMaxWidth(_)
\* boxes.iter().map(|b| b.w).fold(f64::NEG_INFINITY, f64::max)
FoldMaxWidth(bs) ==
    IF bs = <<>> THEN NegInf
    ELSE FMax(FoldMaxWidth(SubSeq(bs, 1, Len(bs) - 1)), bs[Len(bs)].w)

\* variant: lowest first
NotAfter_Ascending(a, b) == a.h <= b.h

\* the comparator of the sort: a may stand before b
NotAfter(a, b) == a.h >= b.h

RECURSIVE Orders(_, _)
\* every arrangement of the boxes at the indices S that the comparator
\* allows: sort_unstable_by leaves the order of equal elements open
Orders(bs, S) ==
    IF S = {} THEN {<<>>}
    ELSE UNION { { <<bs[k]>> \o rest : rest \in Orders(bs, S \ {k}) } :
                 k \in { j \in S : \A m \in S : NotAfter(bs[j], bs[m]) } }

\* variant: the estimate without .max(max_width)
StartWidth_NoMax(area, maxw) == CeilSqrtArea(area)

\* (total_area / 0.95).sqrt().ceil().max(max_width)
StartWidth(area, maxw) == FMax(CeilSqrtArea(area), maxw)

\* the initial space
InitialSpace(sw) == [x |-> 0, y |-> 0, w |-> sw, h |-> F64MAX]

\* the test of the scan: the box does not exceed the space
Fits(b, s) == ~(FGt(b.w, s.w) \/ FGt(b.h, s.h))

\* the spaces that can take the box
FitSet(b, sps) == { j \in 1..Len(sps) : Fits(b, sps[j]) }

\* variant: the scan without .rev()
Scan_Forward(fit) == Min(fit)

\* the scan enumerate().rev() stops at the first of them from the end
Scan(fit) == Max(fit)

\* variant: the extent of the box left out
Extend_NoLen(cur, pos, len) == FMax(cur, pos)

\* height.max(b.y + b.h), width.max(b.x + b.w)
Extend(cur, pos, len) == FMax(cur, FAdd(pos, len))

\* Vec::swap_remove: the last element takes the place of the removed one
swap_remove(v, j) ==
    IF j = Len(v) THEN SubSeq(v, 1, Len(v) - 1)
    ELSE [SubSeq(v, 1, Len(v) - 1) EXCEPT ![j] = v[Len(v)]]

\* variant: the space made narrower but not moved right
ShrinkRight_NoMove(s, b) == [s EXCEPT !.w = FSub(s.w, b.w)]

\* the space keeps the part right of the box
ShrinkRight(s, b) == [s EXCEPT !.x = FAdd(s.x, b.w), !.w = FSub(s.w, b.w)]

\* variant: the space made lower but not moved down
ShrinkDown_NoMove(s, b) == [s EXCEPT !.h = FSub(s.h, b.h)]

\* the space keeps the part below the box
ShrinkDown(s, b) == [s EXCEPT !.y = FAdd(s.y, b.h), !.h = FSub(s.h, b.h)]

\* variant: the new space as wide as the space it is cut from
new_space_FullWidth(s, b) ==
    [x |-> FAdd(s.x, b.w), y |-> s.y, w |-> s.w, h |-> b.h]

\* variant: the new space not moved right of the box
new_space_NoShift(s, b) ==
    [x |-> s.x, y |-> s.y, w |-> FSub(s.w, b.w), h |-> b.h]

\* the new space right of the box, as high as the box
new_space(s, b) ==
    [x |-> FAdd(s.x, b.w), y |-> s.y, w |-> FSub(s.w, b.w), h |-> b.h]

\* the four ways the chosen space j is resolved
Resolve(sps, j, b) ==
    LET s == sps[j] IN
    IF FEq(b.w, s.w) /\ FEq(b.h, s.h) THEN swap_remove(sps, j)
    ELSE IF FEq(b.h, s.h) THEN [sps EXCEPT ![j] = ShrinkRight(s, b)]
    ELSE IF FEq(b.w, s.w) THEN [sps EXCEPT ![j] = ShrinkDown(s, b)]
    ELSE Append([sps EXCEPT ![j] = ShrinkDown(s, b)], new_space(s, b))

\* the creation steps of the spaces, moved exactly as the spaces are
ResolveBorn(brn, sps, j, b, step) ==
    LET s == sps[j] IN
    IF FEq(b.w, s.w) /\ FEq(b.h, s.h) THEN swap_remove(brn, j)
    ELSE IF FEq(b.h, s.h) \/ FEq(b.w, s.w) THEN brn
    ELSE Append(brn, step)

\* variant: the area divided by the width only
FillRatio_OverWidth(area, w, h) ==
    IF w # 0 /\ h # 0 THEN [num |-> area, den |-> w] ELSE One

\* total_area / (width * height) when both are nonzero, else 1
FillRatio(area, w, h) ==
    IF w # 0 /\ h # 0 THEN [num |-> area, den |-> FMul(w, h)] ELSE One

\* ---------------------------------------------------------------- actions
\* Layout::new: number the items and give them unset positions
New ==
    /\ pc = "new"
    /\ boxes' = Layout_new(input)
    /\ pc' = "from_boxes"
    /\ UNCHANGED <<input, spaces, born, width, height, total_area,
                   max_width, start_width, fill_ratio, i, last>>

\* from_boxes up to the placement loop
Prepare ==
    /\ pc = "from_boxes"
    /\ total_area' = SumArea(boxes)
    /\ max_width' = FoldMaxWidth(boxes)
    /\ boxes' \in Orders(boxes, 1..Len(boxes))
    /\ start_width' = StartWidth(total_area', max_width')
    /\ spaces' = <<InitialSpace(start_width')>>
    /\ born' = <<0>>
    /\ width' = 0
    /\ height' = 0
    /\ i' = 1
    /\ pc' = "place"
    /\ UNCHANGED <<input, fill_ratio, last>>

\* one round of the placement loop, for the box boxes[i]
Place ==
    /\ pc = "place"
    /\ i <= Len(boxes)
    /\ LET b == boxes[i]
           fit == FitSet(b, spaces)
       IN IF fit = {}
          THEN \* the scan ends without a break: nothing is assigned
               /\ last' = [idx |-> 0, fit |-> {}, born |-> born,
                           removed |-> FALSE]
               /\ UNCHANGED <<boxes, spaces, born, width, height>>
          ELSE LET j == Scan(fit)
                   s == spaces[j]
                   placed == [b EXCEPT !.x = s.x, !.y = s.y]
               IN /\ boxes' = [boxes EXCEPT ![i] = placed]
                  /\ height' = Extend(height, placed.y, placed.h)
                  /\ width' = Extend(width, placed.x, placed.w)
                  /\ spaces' = Resolve(spaces, j, placed)
                  /\ born' = ResolveBorn(born, spaces, j, placed, i)
                  /\ last' = [idx |-> j, fit |-> fit, born |-> born,
                              removed |-> Len(spaces') < Len(spaces)]
    /\ i' = i + 1
    /\ UNCHANGED <<input, pc, total_area, max_width, start_width, fill_ratio>>

\* after the loop: the fill ratio and the returned Layout
Finish ==
    /\ pc = "place"
    /\ i > Len(boxes)
    /\ fill_ratio' = FillRatio(total_area, width, height)
    /\ pc' = "done"
    /\ UNCHANGED <<input, boxes, spaces, born, width, height, total_area,
                   max_width, start_width, i, last>>

Next == New \/ Prepare \/ Place \/ Finish

\* ------------------------------------------------------------------ inputs
Dims == 0..MaxDim

\* Scenario C and Scenario D
TwoSquares == <<Item(10, 10), Item(10, 10)>>
TallAndWide == <<Item(5, 20), Item(20, 5)>>

\* finite non-negative sizes, any order, up to MaxItems items
SmallInputs ==
    UNION { [1..n -> [w : Dims, h : Dims]] : n \in 0..MaxItems }

\* the heights of a longer input: highest first, no three items equally high
DeepHeights ==
    { hs \in [1..DeepLen -> 1..DeepDim] :
        /\ \A k \in 1..(DeepLen - 1) : hs[k] >= hs[k + 1]
        /\ \A k \in 1..(DeepLen - 2) : hs[k] > hs[k + 2] }

\* longer inputs of positive sizes
DeepInputs ==
    { [k \in 1..DeepLen |-> Item(ws[k], hs[k])] :
        ws \in [1..DeepLen -> 1..DeepDim], hs \in DeepHeights }

\* sizes that may be negative, and heights that may be +infinity
AnyInputs ==
    UNION { [1..n -> [w : (0 - MaxNeg)..MaxAnyDim,
                      h : ((0 - MaxNeg)..MaxAnyDim) \cup {PosInf}]] :
            n \in 0..MaxAnyItems }

Start(inputs) ==
    /\ input \in inputs
    /\ pc = "new"
    /\ boxes = <<>>
    /\ spaces = <<>>
    /\ born = <<>>
    /\ width = 0
    /\ height = 0
    /\ total_area = 0
    /\ max_width = NegInf
    /\ start_width = 0
    /\ fill_ratio = One
    /\ i = 1
    /\ last = NoStep

Init == Start(SmallInputs \cup {TwoSquares, TallAndWide} \cup DeepInputs)
InitAny == Start(AnyInputs)

Spec == Init /\ [][Next]_vars
SpecAny == InitAny /\ [][Next]_vars


\* ------------------------------------------------------------- properties
Returned == pc = "done"
Idx == 1..Len(boxes)
Area(b) == b.w * b.h

\* the interiors of a and b do not meet, or one of them is empty
Disjoint(a, b) ==
    \/ a.x + a.w <= b.x
    \/ b.x + b.w <= a.x
    \/ a.y + a.h <= b.y
    \/ b.y + b.h <= a.y
    \/ Area(a) = 0
    \/ Area(b) = 0

\* a and b share a piece of a vertical edge
TouchSide(a, b) ==
    /\ a.x + a.w = b.x
    /\ a.y < b.y + b.h
    /\ b.y < a.y + a.h

\* C1: in the returned Layout any two distinct boxes have disjoint
\* interiors (touching edges allowed), unless one of them has zero area.
C1_NoOverlap ==
    Returned =>
        \A a \in Idx : \A b \in Idx : a # b => Disjoint(boxes[a], boxes[b])

C1_Witness ==
    /\ Returned
    /\ Len(boxes) >= 3
    /\ \A a \in Idx : Area(boxes[a]) > 0
    /\ \E a \in Idx : \E b \in Idx : TouchSide(boxes[a], boxes[b])

\* C2: every returned box lies inside the container, and for a non-empty
\* input the container is the bounding box of the placements: its width is
\* the largest x + w and its height the largest y + h.
C2_ContainedAndTight ==
    Returned =>
        /\ \A a \in Idx :
              /\ boxes[a].x >= 0
              /\ boxes[a].y >= 0
              /\ boxes[a].x + boxes[a].w <= width
              /\ boxes[a].y + boxes[a].h <= height
        /\ Len(boxes) > 0 =>
              /\ width = Max({ boxes[a].x + boxes[a].w : a \in Idx })
              /\ height = Max({ boxes[a].y + boxes[a].h : a \in Idx })

C2_Witness ==
    /\ Returned
    /\ Len(boxes) >= 2
    /\ width > 0
    /\ width < start_width
    /\ \E a \in Idx :
          boxes[a].x > 0 /\ boxes[a].w > 0 /\ boxes[a].x + boxes[a].w = width

RECURSIVE InsertById(_, _)
\* the place of b in a sequence ordered by id, after the equal ids
InsertById(sorted, b) ==
    IF sorted = <<>> THEN <<b>>
    ELSE IF sorted[Len(sorted)].id <= b.id THEN Append(sorted, b)
    ELSE Append(InsertById(SubSeq(sorted, 1, Len(sorted) - 1), b),
                sorted[Len(sorted)])

RECURSIVE sort_by_key_id(_)
\* image_boxes.sort_by_key(|b| b.id), a stable sort
sort_by_key_id(bs) ==
    IF bs = <<>> THEN <<>>
    ELSE InsertById(sort_by_key_id(SubSeq(bs, 1, Len(bs) - 1)), bs[Len(bs)])

\* C3: there are as many boxes as input items, their ids are each of
\* 0..n-1 exactly once, the box with id k has the size of the k-th item,
\* and the boxes sorted by id, zipped with the input, pair each item with
\* its own box.
C3_Identity ==
    pc # "new" =>
        /\ Len(boxes) = Len(input)
        /\ \A k \in 1..Len(input) :
              \E a \in Idx :
                 /\ boxes[a].id = k - 1
                 /\ boxes[a].w = input[k].w
                 /\ boxes[a].h = input[k].h
                 /\ \A c \in Idx : boxes[c].id = k - 1 => c = a
        /\ LET image_boxes == sort_by_key_id(boxes)
           IN \A k \in 1..Len(input) :
                 /\ image_boxes[k].id = k - 1
                 /\ image_boxes[k].w = input[k].w
                 /\ image_boxes[k].h = input[k].h

C3_Witness ==
    /\ Returned
    /\ Len(boxes) >= 3
    /\ boxes[1].id = 2
    /\ boxes[3].id = 0
    /\ boxes[1].h > boxes[3].h
    /\ boxes[1].w # boxes[3].w

\* C4: the placement never meets a dead end: a space of the full width
\* start_width >= max_width and of unbounded height is in the free list
\* throughout, the next box fits some space, every step so far chose a
\* space, and every returned box has a position.
C4_NoDeadEnd ==
    pc \in {"place", "done"} =>
        /\ \E j \in 1..Len(spaces) :
              spaces[j].w = start_width /\ spaces[j].h = F64MAX
        /\ start_width >= max_width
        /\ i <= Len(boxes) => FitSet(boxes[i], spaces) # {}
        /\ i > 1 => last.idx # 0
        /\ \A a \in Idx : a < i => boxes[a].x # NaN /\ boxes[a].y # NaN
        /\ Returned => \A a \in Idx : boxes[a].x # NaN /\ boxes[a].y # NaN

C4_Witness ==
    /\ Returned
    /\ Len(boxes) >= 2
    /\ start_width = max_width
    /\ max_width > 0
    /\ \E a \in Idx : boxes[a].w = max_width /\ boxes[a].y > 0
    /\ \A a \in Idx : boxes[a].x # NaN /\ boxes[a].y # NaN

\* some size of the input is negative or not finite
Malformed(items) ==
    \E k \in 1..Len(items) :
        \/ items[k].w < 0
        \/ items[k].h < 0
        \/ IsInf(items[k].w)
        \/ IsInf(items[k].h)

\* a round of the loop has ended without a space for its box
DeadEnd == \E a \in Idx : a < i /\ boxes[a].x = NaN

\* C5: when some item fits none of the free spaces the call fails as a
\* whole: no Layout is returned that holds an item without a position.
C5_DeadEndFails == DeadEnd => ~Returned

\* C6: an input with a negative or non-finite width or height is rejected
\* before anything is placed, and no Layout is returned for it.
C6_MalformedRejected ==
    Malformed(input) =>
        /\ ~Returned
        /\ \A a \in Idx : boxes[a].x = NaN /\ boxes[a].y = NaN

\* C7: for a non-empty input the fill ratio is at most 1, that is the sum
\* of the input areas is at most width * height when both are nonzero; the
\* fill ratio is exactly 1 for the empty input and when the width or the
\* height is 0.
C7_FillRatio ==
    Returned =>
        /\ width # 0 /\ height # 0 =>
              /\ fill_ratio = [num |-> SumArea(input), den |-> width * height]
              /\ SumArea(input) <= width * height
              /\ fill_ratio.den > 0
              /\ fill_ratio.num <= fill_ratio.den
        /\ Len(input) = 0 \/ width = 0 \/ height = 0 => fill_ratio = One

C7_Witness ==
    /\ Returned
    /\ Len(input) >= 2
    /\ fill_ratio.num > 0
    /\ fill_ratio.num < fill_ratio.den

\* the box of the item k (counted from 0)
BoxOf(k) == boxes[CHOOSE a \in Idx : boxes[a].id = k]
At(b, x, y) == b.x = x /\ b.y = y
FullyFilled == fill_ratio.num = fill_ratio.den

\* C8 as stated: for [(10,10), (10,10)] the estimate is 15 and the Layout
\* is 10 wide and 20 high with fill ratio 1, item 0 at (0,0) and item 1 at
\* (0,10), whatever order the sort gives the two items.
C8_TwoSquares_Stated ==
    Returned /\ input = TwoSquares =>
        /\ start_width = 15
        /\ width = 10
        /\ height = 20
        /\ FullyFilled
        /\ At(BoxOf(0), 0, 0)
        /\ At(BoxOf(1), 0, 10)

\* C8 amended: for [(10,10), (10,10)] the estimate is 15 and the Layout is
\* 10 wide and 20 high with fill ratio 1; the item the sort puts first is
\* at (0,0) and the other at (0,10), so item 0 is at (0,0) and item 1 at
\* (0,10) exactly when the sort keeps the two items in input order.
C8_TwoSquares ==
    Returned /\ input = TwoSquares =>
        /\ start_width = 15
        /\ width = 10
        /\ height = 20
        /\ FullyFilled
        /\ At(boxes[1], 0, 0)
        /\ At(boxes[2], 0, 10)
        /\ boxes[1].id = 0 <=> (At(BoxOf(0), 0, 0) /\ At(BoxOf(1), 0, 10))
        /\ boxes[1].id = 1 <=> (At(BoxOf(1), 0, 0) /\ At(BoxOf(0), 0, 10))

C8_Witness ==
    /\ Returned
    /\ input = TwoSquares
    /\ boxes[1].id = 1
    /\ At(BoxOf(0), 0, 10)

\* the first round has placed the (5,20) item in the initial space and
\* split it
TallFirst ==
    /\ boxes[1] = [id |-> 0, w |-> 5, h |-> 20, x |-> 0, y |-> 0]
    /\ i = 2 =>
          /\ last.idx = 1
          /\ last.born = <<0>>
          /\ spaces = << [x |-> 0, y |-> 20, w |-> start_width, h |-> F64MAX],
                         [x |-> 5, y |-> 0, w |-> start_width - 5, h |-> 20] >>

Inside(b) ==
    b.x >= 0 /\ b.y >= 0 /\ b.x + b.w <= width /\ b.y + b.h <= height

\* C9 as stated: for [(5,20), (20,5)] the (5,20) item is placed first, in
\* the initial space, which it splits; both boxes are inside the container
\* and do not overlap; the fill ratio is 125 / (width * height).
C9_TallAndWide_Stated ==
    input = TallAndWide =>
        /\ pc \in {"place", "done"} /\ i >= 2 => TallFirst
        /\ Returned =>
              /\ Inside(boxes[1]) /\ Inside(boxes[2])
              /\ Disjoint(boxes[1], boxes[2])
              /\ fill_ratio.num * (width * height) = 125 * fill_ratio.den

\* C9 amended: as stated, but the fill ratio is 200 / (width * height),
\* 200 = 5 * 20 + 20 * 5 being the area of the two items.
C9_TallAndWide ==
    input = TallAndWide =>
        /\ pc \in {"place", "done"} /\ i >= 2 => TallFirst
        /\ Returned =>
              /\ Inside(boxes[1]) /\ Inside(boxes[2])
              /\ Disjoint(boxes[1], boxes[2])
              /\ fill_ratio.num * (width * height) = 200 * fill_ratio.den

C9_Witness ==
    /\ Returned
    /\ input = TallAndWide
    /\ At(boxes[2], 0, 20)
    /\ fill_ratio = [num |-> 200, den |-> 500]

\* the space chosen in the last round is the youngest of those that fit
ChoseYoungest ==
    last.born[last.idx] = Max({ last.born[j] : j \in last.fit })

\* the free list of the last round was in the order of creation
InCreationOrder(brn) ==
    \A j \in 1..(Len(brn) - 1) : brn[j] < brn[j + 1]

\* C10 as stated: in every round the space chosen is the most recently
\* created one among the spaces that fit the item.
C10_ScanOrder_Stated == last.idx # 0 => ChoseYoungest

\* C10 amended: in every round the space chosen is the one nearest the end
\* of the free list among the spaces that fit; that is the most recently
\* created one as long as the list is in creation order, which an exact-fit
\* removal ends when it moves the last space into the freed slot ahead of
\* an older one.
C10_ScanOrder ==
    last.idx # 0 =>
        /\ last.idx \in last.fit
        /\ \A j \in last.fit : j <= last.idx
        /\ InCreationOrder(last.born) => ChoseYoungest

C10_Witness ==
    /\ last.idx # 0
    /\ ~InCreationOrder(last.born)
    /\ Cardinality(last.fit) >= 2
    /\ ~ChoseYoungest

\* the boxes placed so far
Placed == { a \in Idx : a < i }

\* C11: after every placement step the free spaces have pairwise disjoint
\* interiors and every free space has an interior disjoint from every box
\* placed so far: no area is both free and occupied, or free twice.
C11_FreeDisjoint ==
    pc \in {"place", "done"} =>
        /\ \A j \in 1..Len(spaces) : \A k \in 1..Len(spaces) :
              j < k => Disjoint(spaces[j], spaces[k])
        /\ \A j \in 1..Len(spaces) : \A a \in Placed :
              Disjoint(spaces[j], boxes[a])

C11_Witness ==
    /\ pc = "place"
    /\ i > 3
    /\ last.removed
    /\ Len(spaces) >= 3
    /\ \A j \in 1..Len(spaces) : Area(spaces[j]) > 0
    /\ \A a \in Placed : Area(boxes[a]) > 0
    /\ \E j \in 1..Len(spaces) : \E a \in Placed :
          TouchSide(boxes[a], spaces[j])

\* r lies in the horizontal range [0, start_width]
InRange(r) == r.x >= 0 /\ r.x + r.w <= start_width

\* start_width is max(ceil(sqrt(total_area / 0.95)), max_width): it is at
\* least max_width, its square times 0.95 covers the area, and when it is
\* above max_width it is the least such whole number from 0 on
IsEstimate ==
    /\ start_width >= max_width
    /\ 19 * start_width * start_width >= 20 * total_area
    /\ start_width >= 0
    /\ start_width > max_width =>
          \/ start_width = 0
          \/ 19 * (start_width - 1) * (start_width - 1) < 20 * total_area

\* the greatest width of the input
WidestItem == Max({ input[k].w : k \in 1..Len(input) })

\* C12: for a non-empty input max_width <= layout.width <= start_width,
\* with start_width = max(ceil(sqrt(total_area / 0.95)), max_width), and
\* every free space and every placed box stays within the horizontal range
\* [0, start_width]: the container grows downward only.
C12_WidthBound ==
    pc \in {"place", "done"} =>
        /\ \A j \in 1..Len(spaces) : InRange(spaces[j])
        /\ \A a \in Placed : InRange(boxes[a])
        /\ width <= start_width
        /\ IsEstimate
        /\ Len(input) > 0 => max_width = WidestItem
        /\ Returned /\ Len(input) > 0 =>
              /\ max_width <= width
              /\ width <= start_width

C12_Witness ==
    /\ Returned
    /\ Len(input) >= 3
    /\ max_width < width
    /\ width < start_width
    /\ height > start_width

====
